---- MODULE Spec2Model ----
(***************************************************************************)
(* Model of the Schedule $find availability engine                         *)
(* (packages/server/src/fhir/operations/find.ts and utils/find.ts).        *)
(*                                                                         *)
(* A Date is an integer count of clock ticks since the epoch; a minute is  *)
(* TicksPerMinute ticks.  An Interval is a record [start, end] of Dates.   *)
(* The date-fns helpers the code calls are modelled by what they compute   *)
(* on such Dates in a fixed-offset time zone (no DST transitions).         *)
(***************************************************************************)
EXTENDS Integers, Sequences, FiniteSets, TLC

VARIABLES pc, tz, thrown,
          schedulingParameters, range, slots,
          scheduleAvailability, availability, slotIntervals,
          intervals, availableIntervals, blockedIntervals,
          interval, options, result

vars == <<pc, tz, thrown, schedulingParameters, range, slots,
          scheduleAvailability, availability, slotIntervals,
          intervals, availableIntervals, blockedIntervals,
          interval, options, result>>

(***************************************************************************)
(* Bounds of the model.                                                    *)
(***************************************************************************)
\* resolution of the modelled clock: ticks in one minute
TicksPerMinute == 2
\* removeAvailability is checked on instants 0..MaxInstant
MaxInstant == 7
\* normalizeIntervals is checked on instants 0..MaxNormInstant
MaxNormInstant == 4
\* longest interval list handed to normalizeIntervals
MaxLen == 3
\* applyExistingSlots is checked on instants 0..MaxOverlayInstant, with at
\* most MaxOverlay availability intervals and slots taken together
MaxOverlayInstant == 3
MaxOverlay == 3
MaxSlots == 2
\* findAlignedSlots is checked on intervals of at most MaxSteps alignment steps
MaxSteps == 30
\* most weekly availability rules in one SchedulingParameters
MaxRules == 2
\* page size of the handler (DEFAULT_SEARCH_COUNT in the code)
pageSize == 5

(***************************************************************************)
(* Calendar arithmetic.                                                    *)
(***************************************************************************)
MinutesPerHour == 60
HoursPerDay == 24
DaysPerWeek == 7
SecondsPerMinute == 60

HourTicks == MinutesPerHour * TicksPerMinute
DayTicks == HoursPerDay * HourTicks

Min2(a, b) == IF a < b THEN a ELSE b
Max2(a, b) == IF a > b THEN a ELSE b

\* value of a function result that is absent
undefined == [undefined |-> TRUE]
isDefined(x) == x # undefined

Interval(s, e) == [start |-> s, end |-> e]

\* the instants of the half-open range [start, end)
Points(iv) == {t \in iv.start .. (iv.end - 1) : TRUE}
RECURSIVE PointsOf(_)
PointsOf(list) ==
  IF list = <<>> THEN {} ELSE Points(Head(list)) \cup PointsOf(Tail(list))

(***************************************************************************)
(* Interval algebra.                                                       *)
(***************************************************************************)
\* date-fns areIntervalsOverlapping: each interval's ends are put in order,
\* then compared strictly, or inclusively when asked
areIntervalsOverlapping(left, right, inclusive) ==
  LET leftStartTime == Min2(left.start, left.end)
      leftEndTime == Max2(left.start, left.end)
      rightStartTime == Min2(right.start, right.end)
      rightEndTime == Max2(right.start, right.end)
  IN IF inclusive
       THEN leftStartTime <= rightEndTime /\ rightStartTime <= leftEndTime
       ELSE leftStartTime < rightEndTime /\ rightStartTime < leftEndTime

\* date-fns clamp: min(max(date, interval.start), interval.end)
clamp(date, iv) == Min2(Max2(date, iv.start), iv.end)

intersectIntervals(left, right) ==
  IF ~areIntervalsOverlapping(left, right, FALSE)
    THEN undefined
    ELSE Interval(clamp(left.start, right), clamp(left.end, right))

mergeIntervalsNoTouch(left, right) ==
  IF ~areIntervalsOverlapping(left, right, FALSE)
    THEN undefined
    ELSE Interval(Min2(left.start, right.start), Max2(left.end, right.end))

mergeIntervals(left, right) ==
  IF ~areIntervalsOverlapping(left, right, TRUE)
    THEN undefined
    ELSE Interval(IF left.start < right.start THEN left.start ELSE right.start,
                  IF left.end > right.end THEN left.end ELSE right.end)

RECURSIVE insertByEnd(_, _)
insertByEnd(sorted, x) ==
  IF sorted = <<>> THEN <<x>>
  ELSE IF Head(sorted).end <= x.end
         THEN <<Head(sorted)>> \o insertByEnd(Tail(sorted), x)
         ELSE <<x>> \o sorted

\* Array.prototype.sort with the comparator a.start - b.start: a stable sort
RECURSIVE insertByStart(_, _)
insertByStart(sorted, x) ==
  IF sorted = <<>> THEN <<x>>
  ELSE IF Head(sorted).start <= x.start
         THEN <<Head(sorted)>> \o insertByStart(Tail(sorted), x)
         ELSE <<x>> \o sorted

RECURSIVE sortByStart(_)
sortByStart(list) ==
  IF list = <<>> THEN <<>>
  ELSE insertByStart(sortByStart(SubSeq(list, 1, Len(list) - 1)), list[Len(list)])

\* the reducer of normalizeIntervals: one step of the fold
normalizeStep(acc, iv) ==
  IF acc = <<>> THEN <<iv>>
  ELSE LET last == acc[Len(acc)]
           merged == mergeIntervals(last, iv)
       IN IF isDefined(merged)
            THEN [acc EXCEPT ![Len(acc)] = merged]
            ELSE Append(acc, iv)

RECURSIVE reduceNormalize(_, _)
reduceNormalize(acc, rest) ==
  IF rest = <<>> THEN acc
  ELSE reduceNormalize(normalizeStep(acc, Head(rest)), Tail(rest))

normalizeIntervalsUnsorted(list) ==
  IF Len(list) < 2 THEN list ELSE reduceNormalize(<<>>, list)

normalizeIntervals(list) ==
  IF Len(list) < 2 THEN list ELSE reduceNormalize(<<>>, sortByStart(list))

\* first while loop of removeAvailability: skip the blocked intervals that end
\* at or before currentStart
RECURSIVE skipBlocked(_, _, _)
skipBlocked(blocked, blockedIndex, currentStart) ==
  IF blockedIndex <= Len(blocked) /\ blocked[blockedIndex].end <= currentStart
    THEN skipBlocked(blocked, blockedIndex + 1, currentStart)
    ELSE blockedIndex

RECURSIVE carveNoBreak(_, _, _, _, _)
carveNoBreak(blocked, blockedIndex, currentStart, availableEnd, acc) ==
  IF blockedIndex <= Len(blocked) /\ blocked[blockedIndex].start < availableEnd
    THEN LET b == blocked[blockedIndex]
             pushed == IF currentStart < b.start
                         THEN Append(acc, Interval(currentStart, b.start))
                         ELSE acc
             next == IF b.end > currentStart THEN b.end ELSE currentStart
         IN carveNoBreak(blocked, blockedIndex + 1, next, availableEnd, pushed)
    ELSE [result |-> acc, blockedIndex |-> blockedIndex, currentStart |-> currentStart]

\* second while loop of removeAvailability: carve the overlapping blocked
\* intervals out of one available interval; leaves the loop without advancing
\* blockedIndex when a block reaches the end of the available interval
RECURSIVE carve(_, _, _, _, _)
carve(blocked, blockedIndex, currentStart, availableEnd, acc) ==
  IF blockedIndex <= Len(blocked) /\ blocked[blockedIndex].start < availableEnd
    THEN LET b == blocked[blockedIndex]
             pushed == IF currentStart < b.start
                         THEN Append(acc, Interval(currentStart, b.start))
                         ELSE acc
             next == IF b.end > currentStart THEN b.end ELSE currentStart
         IN IF b.end >= availableEnd
              THEN [result |-> pushed, blockedIndex |-> blockedIndex,
                    currentStart |-> next]
              ELSE carve(blocked, blockedIndex + 1, next, availableEnd, pushed)
    ELSE [result |-> acc, blockedIndex |-> blockedIndex, currentStart |-> currentStart]

\* the for loop of removeAvailability over the available intervals
RECURSIVE sweep(_, _, _, _)
sweep(available, blocked, blockedIndex, acc) ==
  IF available = <<>> THEN acc
  ELSE LET a == Head(available)
           skipped == skipBlocked(blocked, blockedIndex, a.start)
           carved == carve(blocked, skipped, a.start, a.end, acc)
           out == IF carved.currentStart < a.end
                    THEN Append(carved.result, Interval(carved.currentStart, a.end))
                    ELSE carved.result
       IN sweep(Tail(available), blocked, carved.blockedIndex, out)

removeAvailability(available, blocked) ==
  IF Len(blocked) = 0 THEN available ELSE sweep(available, blocked, 1, <<>>)

(***************************************************************************)
(* Booking overlay.                                                        *)
(***************************************************************************)
Slot(status, s, e) == [status |-> status, start |-> s, end |-> e]

RECURSIVE filterStatus(_, _)
filterStatus(list, statuses) ==
  IF list = <<>> THEN <<>>
  ELSE IF Head(list).status \in statuses
         THEN <<Head(list)>> \o filterStatus(Tail(list), statuses)
         ELSE filterStatus(Tail(list), statuses)

\* date-fns interval(start, end, {assertPositive: true}) throws a TypeError
\* when start is after end; equal ends pass
intervalThrows(slot) == slot.start > slot.end

\* .map(slot => interval(new Date(slot.start), new Date(slot.end), ...))
RECURSIVE mapInterval(_)
mapInterval(list) ==
  IF list = <<>> THEN <<>>
  ELSE <<Interval(Head(list).start, Head(list).end)>> \o mapInterval(Tail(list))

\* .map(interval => intersectIntervals(interval, range)).filter(isDefined)
RECURSIVE intersectAll(_, _)
intersectAll(list, r) ==
  IF list = <<>> THEN <<>>
  ELSE LET clipped == intersectIntervals(Head(list), r)
       IN (IF isDefined(clipped) THEN <<clipped>> ELSE <<>>)
            \o intersectAll(Tail(list), r)

freeSlotIntervalsUnclipped(bookings, r) ==
  mapInterval(filterStatus(bookings, {"free"}))

freeSlotIntervals(bookings, r) ==
  intersectAll(mapInterval(filterStatus(bookings, {"free"})), r)

busySlotIntervals(bookings) ==
  normalizeIntervals(mapInterval(filterStatus(bookings, {"busy", "busy-unavailable"})))

\* applyExistingSlots throws when interval() rejects one of the slots it maps
applyExistingSlotsThrows(bookings) ==
  \E i \in 1 .. Len(bookings) :
    /\ bookings[i].status \in {"free", "busy", "busy-unavailable"}
    /\ intervalThrows(bookings[i])

applyExistingSlots(avail, bookings, r) ==
  LET allAvailability == normalizeIntervals(avail \o freeSlotIntervals(bookings, r))
  IN removeAvailability(allAvailability, busySlotIntervals(bookings))

(***************************************************************************)
(* Slot aligner.                                                           *)
(***************************************************************************)
MinuteTicks(minutes) == minutes * TicksPerMinute

\* date-fns add / addMinutes with a duration in minutes
addMinutes(date, minutes) == date + MinuteTicks(minutes)
subMinutes(date, minutes) == date - MinuteTicks(minutes)

\* local wall-clock reading of a Date in the zone tzOffset minutes from UTC
localTicks(date, tzOffset) == date + MinuteTicks(tzOffset)

startOfMinute(date) == (date \div TicksPerMinute) * TicksPerMinute

\* minute of the hour of the local time
getMinutes(date, tzOffset) ==
  (localTicks(date, tzOffset) \div TicksPerMinute) % MinutesPerHour

advanceToMinuteMarkDown(date) == startOfMinute(date)

advanceToMinuteMark(date) ==
  LET start == startOfMinute(date)
  IN IF date = start THEN date ELSE addMinutes(start, 1)

\* the JS remainder operator: the result takes the sign of the dividend
jsRemainder(n, d) == IF n >= 0 THEN n % d ELSE 0 - ((0 - n) % d)

modAsRemainder(n, d) == jsRemainder(n, d)

mod(n, d) == jsRemainder(jsRemainder(n, d) + d, d)

\* the while loop of findAlignedSlots
RECURSIVE alignedLoopPartial(_, _, _, _)
alignedLoopPartial(start, iv, opts, acc) ==
  LET end == addMinutes(start, opts.durationMinutes)
  IN IF start < iv.end
       THEN alignedLoopPartial(addMinutes(start, opts.alignment), iv, opts,
                               Append(acc, Interval(start, end)))
       ELSE acc

RECURSIVE alignedLoop(_, _, _, _)
alignedLoop(start, iv, opts, acc) ==
  LET end == addMinutes(start, opts.durationMinutes)
  IN IF end <= iv.end
       THEN alignedLoop(addMinutes(start, opts.alignment), iv, opts,
                        Append(acc, Interval(start, end)))
       ELSE acc

\* how far findAlignedSlots shifts the first minute mark to hit the grid
toAlign(iv, opts, tzOffset) ==
  LET firstMinuteStart == advanceToMinuteMark(iv.start)
      remainder == mod(getMinutes(firstMinuteStart, tzOffset) - opts.offsetMinutes,
                       opts.alignment)
  IN IF remainder = 0 THEN 0 ELSE opts.alignment - remainder

findAlignedSlots(iv, opts, tzOffset) ==
  LET firstMinuteStart == advanceToMinuteMark(iv.start)
      start == addMinutes(firstMinuteStart, toAlign(iv, opts, tzOffset))
  IN alignedLoop(start, iv, opts, <<>>)

(***************************************************************************)
(* Availability resolver.                                                  *)
(***************************************************************************)
dayNames == <<"sun", "mon", "tue", "wed", "thu", "fri", "sat">>

\* date-fns startOfDay in the zone tzOffset minutes from UTC
startOfDay(date, tzOffset) ==
  (localTicks(date, tzOffset) \div DayTicks) * DayTicks - MinuteTicks(tzOffset)

\* Date.prototype.getDay of the local date: 0 is Sunday; the epoch was a Thursday
getDay(date, tzOffset) ==
  ((localTicks(date, tzOffset) \div DayTicks) + 4) % DaysPerWeek

\* the while loop of date-fns eachDayOfInterval: every local midnight from the
\* start of range.start's day on, while it is not after range.end
RECURSIVE daysFrom(_, _)
daysFrom(date, endTime) ==
  IF date <= endTime THEN <<date>> \o daysFrom(date + DayTicks, endTime) ELSE <<>>

eachDayOfInterval(r, tzOffset) == daysFrom(startOfDay(r.start, tzOffset), r.end)

\* timeOfDay.split(':').map(Number) gives [hours, minutes, seconds];
\* date-fns add(dayStart, {hours, minutes, seconds})
addTimeOfDay(dayStart, timeOfDay) ==
  dayStart + timeOfDay.hours * HourTicks + MinuteTicks(timeOfDay.minutes)
    + (timeOfDay.seconds * TicksPerMinute) \div SecondsPerMinute

occurrenceCutAtMidnight(dayStart, rule, timeOfDay) ==
  LET start == addTimeOfDay(dayStart, timeOfDay)
      end == addMinutes(start, rule.duration)
  IN Interval(start, Min2(end, dayStart + DayTicks))

\* the interval one timeOfDay entry of a rule stands for on one day
occurrence(dayStart, rule, timeOfDay) ==
  LET start == addTimeOfDay(dayStart, timeOfDay)
      end == addMinutes(start, rule.duration)
  IN Interval(start, end)

\* availability.timeOfDay.map(...) of one rule on one day, with the
\* undefined entries already dropped
RECURSIVE mapTimeOfDay(_, _, _, _)
mapTimeOfDay(dayStart, rule, times, r) ==
  IF times = <<>> THEN <<>>
  ELSE LET clipped == intersectIntervals(occurrence(dayStart, rule, Head(times)), r)
       IN (IF isDefined(clipped) THEN <<clipped>> ELSE <<>>)
            \o mapTimeOfDay(dayStart, rule, Tail(times), r)

\* .filter(dayOfWeek.includes).flatMap(...) over the rules, for one day
RECURSIVE flatMapRules(_, _, _, _)
flatMapRules(dayStart, rules, r, tzOffset) ==
  IF rules = <<>> THEN <<>>
  ELSE (IF dayNames[getDay(dayStart, tzOffset) + 1] \in Head(rules).dayOfWeek
          THEN mapTimeOfDay(dayStart, Head(rules), Head(rules).timeOfDay, r)
          ELSE <<>>)
         \o flatMapRules(dayStart, Tail(rules), r, tzOffset)

RECURSIVE flatMapDays(_, _, _, _)
flatMapDays(days, rules, r, tzOffset) ==
  IF days = <<>> THEN <<>>
  ELSE flatMapRules(Head(days), rules, r, tzOffset)
         \o flatMapDays(Tail(days), rules, r, tzOffset)

resolveAvailability(params, r, tzOffset) ==
  flatMapDays(eachDayOfInterval(r, tzOffset), params.availability, r, tzOffset)

(***************************************************************************)
(* The $find handler: the steps it runs once the schedule and the slots    *)
(* are loaded.                                                             *)
(***************************************************************************)
\* date-fns differenceInDays: the whole days between two dates
differenceInDays(later, earlier) == (later - earlier) \div DayTicks

alignmentOptionsUnshifted(params) ==
  [durationMinutes |-> params.duration + params.bufferBefore + params.bufferAfter,
   alignment |-> params.alignmentInterval,
   offsetMinutes |-> params.alignmentOffset]

alignmentOptions(params) ==
  [durationMinutes |-> params.duration + params.bufferBefore + params.bufferAfter,
   alignment |-> params.alignmentInterval,
   offsetMinutes |-> params.alignmentOffset - params.bufferBefore]

\* availability.flatMap(interval => findAlignedSlots(interval, alignmentOptions))
RECURSIVE flatMapAligned(_, _, _)
flatMapAligned(list, opts, tzOffset) ==
  IF list = <<>> THEN <<>>
  ELSE findAlignedSlots(Head(list), opts, tzOffset)
         \o flatMapAligned(Tail(list), opts, tzOffset)

\* .slice(0, pageSize)
slice(list, count) == SubSeq(list, 1, Min2(Len(list), count))

RECURSIVE stripBuffersKeepAfter(_, _)
stripBuffersKeepAfter(list, params) ==
  IF list = <<>> THEN <<>>
  ELSE <<Interval(addMinutes(Head(list).start, params.bufferBefore),
                  Head(list).end)>>
         \o stripBuffersKeepAfter(Tail(list), params)

\* .map(interval => ({start: addMinutes(start, bufferBefore),
\*                    end: subMinutes(end, bufferAfter)}))
RECURSIVE stripBuffers(_, _)
stripBuffers(list, params) ==
  IF list = <<>> THEN <<>>
  ELSE <<Interval(addMinutes(Head(list).start, params.bufferBefore),
                  subMinutes(Head(list).end, params.bufferAfter))>>
         \o stripBuffers(Tail(list), params)

(***************************************************************************)
(* Inputs of the interval-algebra checks.                                  *)
(***************************************************************************)
IntervalsUpTo(n) == {iv \in [start : 0 .. n, end : 0 .. n] : iv.start < iv.end}
ValidIntervals == IntervalsUpTo(MaxInstant)

RECURSIVE SeqsUpTo(_, _)
SeqsUpTo(S, n) ==
  IF n = 0 THEN {<<>>}
  ELSE LET shorter == SeqsUpTo(S, n - 1)
       IN shorter \cup {Append(s, x) : s \in {q \in shorter : Len(q) = n - 1}, x \in S}

IsNormalized(list) ==
  /\ \A i \in 1 .. Len(list) : list[i].start < list[i].end
  /\ \A i \in 1 .. Len(list) - 1 : list[i].end < list[i + 1].start

\* every normalized list whose intervals start at or after lo
RECURSIVE NormalizedFrom(_)
NormalizedFrom(lo) ==
  {<<>>} \cup
  UNION {{<<iv>> \o rest : rest \in NormalizedFrom(iv.end + 1)} :
           iv \in {v \in ValidIntervals : v.start >= lo}}

unused == <<>>

\* time zones of the checks: UTC, New York (standard time), India
TzOffsets == {0, 0 - 300, 330}

(***************************************************************************)
(* normalizeIntervals applied to an arbitrary list, then to its own        *)
(* output.                                                                 *)
(***************************************************************************)
InitNormalize ==
  /\ pc = "normalize"
  /\ intervals \in SeqsUpTo(IntervalsUpTo(MaxNormInstant), MaxLen)
  /\ result = unused
  /\ availability = unused
  /\ tz = 0 /\ thrown = "none"
  /\ schedulingParameters = unused /\ range = unused /\ slots = unused
  /\ scheduleAvailability = unused /\ slotIntervals = unused
  /\ availableIntervals = unused /\ blockedIntervals = unused
  /\ interval = unused /\ options = unused

NormalizeIntervals ==
  /\ pc = "normalize"
  /\ result' = normalizeIntervals(intervals)
  /\ pc' = "renormalize"
  /\ UNCHANGED <<tz, thrown, schedulingParameters, range, slots,
                 scheduleAvailability, availability, slotIntervals,
                 intervals, availableIntervals, blockedIntervals,
                 interval, options>>

\* the normalized list is handed to normalizeIntervals again
NormalizeAgain ==
  /\ pc = "renormalize"
  /\ availability' = normalizeIntervals(result)
  /\ pc' = "done"
  /\ UNCHANGED <<tz, thrown, schedulingParameters, range, slots,
                 scheduleAvailability, slotIntervals,
                 intervals, availableIntervals, blockedIntervals,
                 interval, options, result>>

NextNormalize == NormalizeIntervals \/ NormalizeAgain

SpecNormalize == InitNormalize /\ [][NextNormalize]_vars

IsSortedByStart(list) ==
  \A i \in 1 .. Len(list) - 1 : list[i].start <= list[i + 1].start

\* C5: normalizeIntervals of any list of intervals (start < end, any order,
\* overlaps and duplicates allowed) is sorted ascending by start, its
\* consecutive intervals neither overlap nor touch (prev.end < next.start),
\* and it covers exactly the instants the input covers.
C5_NormalizationSoundness ==
  pc # "normalize" =>
    /\ IsSortedByStart(result)
    /\ \A i \in 1 .. Len(result) - 1 : result[i].end < result[i + 1].start
    /\ \A i \in 1 .. Len(result) : result[i].start < result[i].end
    /\ PointsOf(result) = PointsOf(intervals)

\* an unsorted input holding an overlapping pair and a touching pair, fused
C5_Witness ==
  /\ pc = "renormalize"
  /\ Len(intervals) = 3
  /\ ~IsSortedByStart(intervals)
  /\ \E i, j \in 1 .. 3 : intervals[i].end = intervals[j].start
  /\ \E i, j \in 1 .. 3 :
       i # j /\ intervals[i].start < intervals[j].start
             /\ intervals[j].start < intervals[i].end
  /\ Len(result) = 1

\* C8: normalizeIntervals(normalizeIntervals(xs)) is normalizeIntervals(xs),
\* interval for interval, and an already-normalized list comes back unchanged.
C8_NormalizationIdempotence ==
  /\ pc = "done" => availability = result
  /\ (pc # "normalize" /\ IsNormalized(intervals)) => result = intervals

\* a list that the first pass changed and the second pass left alone
C8_Witness ==
  /\ pc = "done"
  /\ Len(intervals) = 3
  /\ result # intervals
  /\ Len(result) = 2
  /\ availability = result

(***************************************************************************)
(* removeAvailability applied to two normalized lists.                     *)
(***************************************************************************)
InitSubtract ==
  /\ pc = "subtract"
  /\ availableIntervals \in NormalizedFrom(0)
  /\ blockedIntervals \in NormalizedFrom(0)
  /\ result = unused
  /\ tz = 0 /\ thrown = "none"
  /\ schedulingParameters = unused /\ range = unused /\ slots = unused
  /\ scheduleAvailability = unused /\ slotIntervals = unused
  /\ availability = unused /\ intervals = unused
  /\ interval = unused /\ options = unused

RemoveAvailability ==
  /\ pc = "subtract"
  /\ result' = removeAvailability(availableIntervals, blockedIntervals)
  /\ pc' = "done"
  /\ UNCHANGED <<tz, thrown, schedulingParameters, range, slots,
                 scheduleAvailability, availability, slotIntervals,
                 intervals, availableIntervals, blockedIntervals,
                 interval, options>>

NextSubtract == RemoveAvailability

SpecSubtract == InitSubtract /\ [][NextSubtract]_vars

\* C1: for normalized available and blocked lists, removeAvailability covers
\* exactly the instants that are in some available interval and in no
\* blocked interval.
C1_SubtractionCorrectness ==
  pc = "done" =>
    /\ \A t \in PointsOf(result) :
         t \in PointsOf(availableIntervals) /\ t \notin PointsOf(blockedIntervals)
    /\ \A t \in PointsOf(availableIntervals) :
         t \notin PointsOf(blockedIntervals) => t \in PointsOf(result)

\* one block strictly inside an available interval, and one block that runs
\* from inside an available interval into the next one
C1_Witness ==
  /\ pc = "done"
  /\ IsNormalized(availableIntervals) /\ IsNormalized(blockedIntervals)
  /\ Len(availableIntervals) = 2 /\ Len(blockedIntervals) = 2
  /\ availableIntervals[1].start < blockedIntervals[1].start
  /\ blockedIntervals[1].end < blockedIntervals[2].start
  /\ blockedIntervals[2].start < availableIntervals[1].end
  /\ availableIntervals[2].start < blockedIntervals[2].end
  /\ blockedIntervals[2].end < availableIntervals[2].end
  /\ Len(result) = 3
(***************************************************************************)
(* applyExistingSlots applied to an availability list, a slot list and a   *)
(* range.                                                                  *)
(***************************************************************************)
SlotStatuses == {"free", "busy", "busy-unavailable"}

OverlaySlots ==
  {Slot(st, iv.start, iv.end) :
     st \in SlotStatuses, iv \in IntervalsUpTo(MaxOverlayInstant)}

OverlayRanges ==
  {Interval(0, MaxOverlayInstant), Interval(1, MaxOverlayInstant - 1)}

InitOverlay ==
  /\ pc = "overlay"
  /\ availability \in SeqsUpTo(IntervalsUpTo(MaxOverlayInstant), MaxOverlay)
  /\ slots \in SeqsUpTo(OverlaySlots, Min2(MaxSlots, MaxOverlay - Len(availability)))
  /\ range \in OverlayRanges
  /\ result = unused
  /\ tz = 0 /\ thrown = "none"
  /\ schedulingParameters = unused
  /\ scheduleAvailability = unused /\ slotIntervals = unused
  /\ availableIntervals = unused /\ blockedIntervals = unused
  /\ intervals = unused /\ interval = unused /\ options = unused

ApplyExistingSlots ==
  /\ pc = "overlay"
  /\ IF applyExistingSlotsThrows(slots)
       THEN thrown' = "TypeError" /\ result' = result
       ELSE thrown' = "none" /\ result' = applyExistingSlots(availability, slots, range)
  /\ pc' = "done"
  /\ UNCHANGED <<tz, schedulingParameters, range, slots,
                 scheduleAvailability, availability, slotIntervals,
                 intervals, availableIntervals, blockedIntervals,
                 interval, options>>

NextOverlay == ApplyExistingSlots

SpecOverlay == InitOverlay /\ [][NextOverlay]_vars

\* the instants the bookings of the given statuses cover
RECURSIVE BookedPoints(_, _)
BookedPoints(bookings, statuses) ==
  IF bookings = <<>> THEN {}
  ELSE (IF Head(bookings).status \in statuses
          THEN Points(Head(bookings)) ELSE {})
         \cup BookedPoints(Tail(bookings), statuses)

\* C4: applyExistingSlots returns exactly the instants of
\* (availability UNION free bookings clipped to range) MINUS (busy and
\* busy-unavailable bookings).
C4_BookingOverlay ==
  (pc = "done" /\ thrown = "none") =>
    PointsOf(result) =
      (PointsOf(availability)
         \cup (BookedPoints(slots, {"free"}) \cap Points(range)))
        \ BookedPoints(slots, {"busy", "busy-unavailable"})

\* a busy booking strictly inside an availability interval splits it in two
C4_Witness ==
  /\ pc = "done" /\ thrown = "none"
  /\ Len(availability) = 1 /\ Len(slots) = 1
  /\ slots[1].status = "busy"
  /\ availability[1].start < slots[1].start
  /\ slots[1].end < availability[1].end
  /\ result = <<Interval(availability[1].start, slots[1].start),
                Interval(slots[1].end, availability[1].end)>>
(***************************************************************************)
(* findAlignedSlots applied to one interval.                               *)
(***************************************************************************)

AlignStartMinutes == {540, 541, 547, 590, 599}
AlignLengthMinutes == {0, 20, 61, 120, 125}
Alignments == {1, 7, 15, 20, 45, 60}
AlignOffsets == {0 - 70, 0 - 10, 0 - 1, 0, 5, 61}
AlignDurations == {1, 20, 30, 75}

AlignIntervals ==
  {Interval(MinuteTicks(m) + sub, MinuteTicks(m) + sub + MinuteTicks(len)) :
     m \in AlignStartMinutes, sub \in 0 .. (TicksPerMinute - 1),
     len \in AlignLengthMinutes}

InitAlign ==
  /\ pc = "align"
  /\ interval \in AlignIntervals
  /\ options \in [alignment : Alignments, offsetMinutes : AlignOffsets,
                   durationMinutes : AlignDurations]
  /\ interval.end - interval.start <= MinuteTicks(options.alignment * MaxSteps)
  /\ tz \in TzOffsets
  /\ result = unused /\ thrown = "none"
  /\ schedulingParameters = unused /\ range = unused /\ slots = unused
  /\ scheduleAvailability = unused /\ slotIntervals = unused
  /\ availability = unused /\ intervals = unused
  /\ availableIntervals = unused /\ blockedIntervals = unused

FindAlignedSlots ==
  /\ pc = "align"
  /\ result' = findAlignedSlots(interval, options, tz)
  /\ pc' = "done"
  /\ UNCHANGED <<tz, thrown, schedulingParameters, range, slots,
                 scheduleAvailability, availability, slotIntervals,
                 intervals, availableIntervals, blockedIntervals,
                 interval, options>>

NextAlign == FindAlignedSlots

SpecAlign == InitAlign /\ [][NextAlign]_vars

\* t is a whole-minute instant on the alignment grid of opts
OnGrid(t, opts, tzOffset) ==
  /\ t % TicksPerMinute = 0
  /\ (getMinutes(t, tzOffset) - opts.offsetMinutes) % opts.alignment = 0

GridProperty ==
  \A i \in 1 .. Len(result) :
    /\ OnGrid(result[i].start, options, tz)
    /\ result[i].end = result[i].start + MinuteTicks(options.durationMinutes)
    /\ result[i].end <= interval.end

\* C2 as stated: for every alignment in [1,60], every emitted slot starts on
\* the alignment grid, has length durationMinutes and ends by interval.end.
C2_GridAnyAlignment ==
  (pc = "done" /\ options.alignment \in 1 .. MinutesPerHour) => GridProperty

\* C2 amended: the same, for every alignment in [1,60] that divides the hour.
C2_GridHourDivisor ==
  (pc = "done" /\ options.alignment \in 1 .. MinutesPerHour
               /\ MinutesPerHour % options.alignment = 0) => GridProperty

\* slots of an hour-dividing alignment emitted on both sides of an hour mark,
\* from a start that is off the minute mark, with a negative offset
C2_Witness ==
  /\ pc = "done"
  /\ options.alignment = 20 /\ options.offsetMinutes < 0
  /\ interval.start % TicksPerMinute # 0
  /\ Len(result) >= 3
  /\ result[1].start \div HourTicks # result[Len(result)].start \div HourTicks

\* the starts findAlignedSlots must emit: every grid instant that fits
GridStarts ==
  {t \in interval.start .. interval.end :
     /\ OnGrid(t, options, tz)
     /\ t + MinuteTicks(options.durationMinutes) <= interval.end}

Completeness ==
  /\ {result[i].start : i \in 1 .. Len(result)} = GridStarts
  /\ \A i \in 1 .. Len(result) - 1 : result[i].start < result[i + 1].start
  /\ \A i \in 1 .. Len(result) :
       result[i].end = result[i].start + MinuteTicks(options.durationMinutes)

\* C7 as stated: for every alignment in [1,60], the emitted slots are, in
\* ascending order, exactly the grid instants t >= interval.start with
\* t + durationMinutes <= interval.end.
C7_CompleteAnyAlignment ==
  (pc = "done" /\ options.alignment \in 1 .. MinutesPerHour) => Completeness

\* C7 amended: the same, for every alignment in [1,60] that divides the hour.
C7_CompleteHourDivisor ==
  (pc = "done" /\ options.alignment \in 1 .. MinutesPerHour
               /\ MinutesPerHour % options.alignment = 0) => Completeness

\* interval 09:00-11:00, alignment 60, offset 0, duration 20: exactly the
\* starts 09:00 and 10:00; and a run in which a slot ends exactly at
\* interval.end
C7_Witness ==
  /\ pc = "done" /\ tz = 0
  /\ interval = Interval(MinuteTicks(540), MinuteTicks(660))
  /\ options.alignment = 60 /\ options.offsetMinutes = 0
  /\ options.durationMinutes = 20
  /\ result = <<Interval(MinuteTicks(540), MinuteTicks(560)),
                Interval(MinuteTicks(600), MinuteTicks(620))>>
(***************************************************************************)
(* resolveAvailability applied to a rule list and a range.                 *)
(***************************************************************************)
TimeOfDay(h, m, sec) == [hours |-> h, minutes |-> m, seconds |-> sec]

\* a seconds value the modelled clock can tell from a whole minute
SubMinuteSeconds == SecondsPerMinute \div TicksPerMinute

RuleDays == {{"mon"}, {"mon", "wed", "thu"}, {"sun", "tue"}}
RuleTimes ==
  {<<TimeOfDay(15, 20, 0)>>,
   <<TimeOfDay(9, 30, 0), TimeOfDay(13, 15, 0)>>,
   <<TimeOfDay(23, 0, SubMinuteSeconds), TimeOfDay(0, 0, 0)>>}
RuleDurations == {180, 600, 1500}

Rules == [dayOfWeek : RuleDays, timeOfDay : RuleTimes, duration : RuleDurations]

\* a UTC instant: day of the epoch, hour, minute and tick of the minute
At(day, h, m, tick) == day * DayTicks + h * HourTicks + MinuteTicks(m) + tick

MaxSearchDays == 31

\* ranges from Sunday 4 January 1970 on (day 3 of the epoch)
Ranges ==
  {Interval(At(3, 5, 0, 0), At(7, 4, 59, 1)),
   Interval(At(3, 0, 0, 0), At(5, 0, 0, 0)),
   Interval(At(4, 16, 0, 1), At(5, 5, 0, 0)),
   Interval(At(4, 22, 10, 0), At(5, 1, 0, 0)),
   Interval(At(5, 0, 30, 0), At(5, 1, 0, 0)),
   Interval(At(6, 18, 30, 0), At(8, 10, 0, 0))}

Parameters(rules) ==
  [availability |-> rules, duration |-> 20, bufferBefore |-> 0,
   bufferAfter |-> 0, alignmentInterval |-> 60, alignmentOffset |-> 0]

InitResolve ==
  /\ pc = "resolve"
  /\ \E rules \in SeqsUpTo(Rules, MaxRules) :
       schedulingParameters = Parameters(rules)
  /\ range \in Ranges
  /\ tz \in TzOffsets
  /\ result = unused /\ thrown = "none"
  /\ slots = unused
  /\ scheduleAvailability = unused /\ slotIntervals = unused
  /\ availability = unused /\ intervals = unused
  /\ availableIntervals = unused /\ blockedIntervals = unused
  /\ interval = unused /\ options = unused

ResolveAvailability ==
  /\ pc = "resolve"
  /\ result' = resolveAvailability(schedulingParameters, range, tz)
  /\ pc' = "done"
  /\ UNCHANGED <<tz, thrown, schedulingParameters, range, slots,
                 scheduleAvailability, availability, slotIntervals,
                 intervals, availableIntervals, blockedIntervals,
                 interval, options>>

NextResolve == ResolveAvailability

SpecResolve == InitResolve /\ [][NextResolve]_vars

\* local midnight of calendar day n of the epoch
Midnight(n) == n * DayTicks - MinuteTicks(tz)

DayName(n) == dayNames[((n + 4) % DaysPerWeek) + 1]

\* the occurrence of timeOfDay entry k of rule r on calendar day n
Occurrence(n, r, k) ==
  LET rule == schedulingParameters.availability[r]
      t == rule.timeOfDay[k]
      s == Midnight(n) + t.hours * HourTicks + t.minutes * TicksPerMinute
             + (t.seconds * TicksPerMinute) \div SecondsPerMinute
  IN Interval(s, s + rule.duration * TicksPerMinute)

\* the (day, rule, timeOfDay) triples the resolver must return an interval for
Triples ==
  {tr \in UNION {{<<n, r, k>> :
                     n \in ((range.start \div DayTicks) - 2) .. ((range.end \div DayTicks) + 2),
                     k \in 1 .. Len(schedulingParameters.availability[r].timeOfDay)} :
                  r \in 1 .. Len(schedulingParameters.availability)} :
     /\ Midnight(tr[1]) <= range.end
     /\ Midnight(tr[1]) + DayTicks > range.start
     /\ DayName(tr[1]) \in schedulingParameters.availability[tr[2]].dayOfWeek
     /\ Occurrence(tr[1], tr[2], tr[3]).start < range.end
     /\ range.start < Occurrence(tr[1], tr[2], tr[3]).end}

Before(a, b) ==
  \/ a[1] < b[1]
  \/ a[1] = b[1] /\ a[2] < b[2]
  \/ a[1] = b[1] /\ a[2] = b[2] /\ a[3] < b[3]

Rank(tr) == Cardinality({o \in Triples : Before(o, tr)}) + 1

Clipped(iv) ==
  Interval(IF iv.start < range.start THEN range.start ELSE iv.start,
           IF iv.end > range.end THEN range.end ELSE iv.end)

\* C6: resolveAvailability returns, in calendar-day order, exactly one
\* interval for each (day touching range, rule naming that day, timeOfDay
\* entry) whose occurrence overlaps range: the occurrence clipped to range,
\* not cut at midnight; and nothing else.
C6_ResolverOutput ==
  pc = "done" =>
    /\ Len(result) = Cardinality(Triples)
    /\ \A tr \in Triples :
         result[Rank(tr)] = Clipped(Occurrence(tr[1], tr[2], tr[3]))

\* a result holding an interval that crosses a local midnight uncut, an
\* interval clipped by the range, from a range with a day no rule names
C6_Witness ==
  /\ pc = "done"
  /\ Len(result) >= 2
  /\ \E i \in 1 .. Len(result) :
       /\ startOfDay(result[i].start, tz) # startOfDay(result[i].end - 1, tz)
       /\ result[i].start > range.start /\ result[i].end < range.end
  /\ \E i \in 1 .. Len(result) : result[i].end = range.end
  /\ \E n \in (range.start \div DayTicks) .. (range.end \div DayTicks) :
       /\ Midnight(n) >= range.start /\ Midnight(n) + DayTicks <= range.end
       /\ \A r \in 1 .. Len(schedulingParameters.availability) :
            DayName(n) \notin schedulingParameters.availability[r].dayOfWeek
(***************************************************************************)
(* scheduleFindHandler: range checks, resolveAvailability,                 *)
(* applyExistingSlots, findAlignedSlots over each interval, page cut and   *)
(* buffer stripping.                                                       *)
(***************************************************************************)
HandlerRules ==
  {[dayOfWeek |-> {"mon"},
    timeOfDay |-> <<TimeOfDay(9, 30, 0), TimeOfDay(13, 15, 0)>>, duration |-> 180],
   [dayOfWeek |-> {"mon", "tue"},
    timeOfDay |-> <<TimeOfDay(12, 30, 0)>>, duration |-> 60],
   [dayOfWeek |-> {"sun", "mon"},
    timeOfDay |-> <<TimeOfDay(23, 0, SubMinuteSeconds)>>, duration |-> 120]}

HandlerParameters ==
  {[availability |-> rules, duration |-> d, bufferBefore |-> bb,
    bufferAfter |-> ba, alignmentInterval |-> ai, alignmentOffset |-> ao] :
     rules \in SeqsUpTo(HandlerRules, MaxRules),
     d \in {15, 30}, bb \in {0, 10}, ba \in {0, 5},
     ai \in {15, 60}, ao \in {0, 30}}

\* Monday 5 January 1970 is day 4 of the epoch
HandlerSlots ==
  {Slot("busy", At(4, 15, 0, 0), At(4, 15, 30, 0)),
   Slot("busy-unavailable", At(4, 14, 40, 1), At(4, 15, 10, 0)),
   Slot("free", At(4, 22, 0, 0), At(4, 23, 0, 0)),
   Slot("free", At(4, 14, 0, 0), At(4, 16, 0, 0))}

HandlerRanges ==
  {Interval(At(3, 5, 0, 0), At(6, 4, 59, 1)),
   Interval(At(4, 15, 0, 1), At(5, 0, 0, 0)),
   Interval(At(4, 15, 0, 0), At(4, 15, 0, 0)),
   Interval(At(3, 0, 0, 0), At(3 + MaxSearchDays + 1, 0, 0, 0))}

HandlerTzOffsets == {0 - 300, 330}

Init ==
  /\ pc = "find"
  /\ schedulingParameters \in HandlerParameters
  /\ range \in HandlerRanges
  /\ slots \in SeqsUpTo(HandlerSlots, MaxSlots)
  /\ tz \in HandlerTzOffsets
  /\ thrown = "none"
  /\ scheduleAvailability = unused /\ availability = unused
  /\ slotIntervals = unused
  /\ result = unused /\ intervals = unused
  /\ availableIntervals = unused /\ blockedIntervals = unused
  /\ interval = unused /\ options = unused

ScheduleFindHandler ==
  /\ pc = "find"
  /\ pc' = "done"
  /\ IF range.start >= range.end \/ differenceInDays(range.end, range.start) > MaxSearchDays
       THEN /\ thrown' = "badRequest"
            /\ UNCHANGED <<scheduleAvailability, availability, slotIntervals>>
       ELSE /\ scheduleAvailability' = resolveAvailability(schedulingParameters, range, tz)
            /\ IF applyExistingSlotsThrows(slots)
                 THEN /\ thrown' = "TypeError"
                      /\ UNCHANGED <<availability, slotIntervals>>
                 ELSE /\ thrown' = "none"
                      /\ availability' =
                           applyExistingSlots(scheduleAvailability', slots, range)
                      /\ slotIntervals' =
                           stripBuffers(
                             slice(flatMapAligned(availability',
                                                  alignmentOptions(schedulingParameters), tz),
                                   pageSize),
                             schedulingParameters)
  /\ UNCHANGED <<tz, schedulingParameters, range, slots, result, intervals,
                 availableIntervals, blockedIntervals, interval, options>>

Next == ScheduleFindHandler

Spec == Init /\ [][Next]_vars

Returned == pc = "done" /\ thrown = "none"

NoOverlap(list) ==
  \A i, j \in 1 .. Len(list) :
    i < j => (list[i].end <= list[j].start \/ list[j].end <= list[i].start)

\* C3 as stated: the slots the handler returns are ordered ascending by
\* start and no two of them overlap.
C3_OrderedNonOverlapping ==
  Returned => (IsSortedByStart(slotIntervals) /\ NoOverlap(slotIntervals))

\* C3 amended: the slots the handler returns are ordered strictly ascending
\* by start, and no two of them overlap when duration <= alignmentInterval.
C3_OrderedNonOverlappingWhenFits ==
  Returned =>
    /\ \A i \in 1 .. Len(slotIntervals) - 1 :
         slotIntervals[i].start < slotIntervals[i + 1].start
    /\ schedulingParameters.duration <= schedulingParameters.alignmentInterval
         => NoOverlap(slotIntervals)

\* slots from two different availability intervals, cut at the page size,
\* with buffers stripped and duration <= alignmentInterval
C3_Witness ==
  /\ Returned
  /\ schedulingParameters.duration <= schedulingParameters.alignmentInterval
  /\ schedulingParameters.bufferBefore > 0 /\ schedulingParameters.bufferAfter > 0
  /\ Len(availability) >= 2
  /\ Len(slotIntervals) = pageSize
  /\ \E i \in 1 .. Len(slotIntervals) - 1 :
       \E k \in 1 .. Len(availability) - 1 :
         /\ slotIntervals[i].end <= availability[k].end
         /\ slotIntervals[i + 1].start >= availability[k + 1].start
\* C9 as stated: an empty rule list resolves to the empty list, and with no
\* bookings applyExistingSlots returns the resolver's list unmodified.
C9_EmptyInputsUnmodified ==
  Returned =>
    /\ schedulingParameters.availability = <<>> => scheduleAvailability = <<>>
    /\ slots = <<>> => availability = scheduleAvailability

\* C9 amended: an empty rule list resolves to the empty list, and with no
\* bookings applyExistingSlots returns the resolver's list normalized: sorted
\* by start with overlapping and touching entries fused, covering the same
\* instants, and equal to the resolver's list exactly when that list is
\* already normalized.
C9_EmptyInputsNormalized ==
  Returned =>
    /\ schedulingParameters.availability = <<>> => scheduleAvailability = <<>>
    /\ slots = <<>> =>
         /\ IsNormalized(availability)
         /\ PointsOf(availability) = PointsOf(scheduleAvailability)
         /\ (availability = scheduleAvailability) <=> IsNormalized(scheduleAvailability)

\* no bookings, and a resolver list from several rules that is out of order
\* and has touching and overlapping entries
C9_Witness ==
  /\ Returned
  /\ slots = <<>>
  /\ Len(schedulingParameters.availability) >= 2
  /\ ~IsSortedByStart(scheduleAvailability)
  /\ \E i, j \in 1 .. Len(scheduleAvailability) :
       scheduleAvailability[i].end = scheduleAvailability[j].start
  /\ Len(availability) < Len(scheduleAvailability)

(***************************************************************************)
(* The handler on configurations and bookings of zero or negative length.  *)
(***************************************************************************)
InvalidRules ==
  {[dayOfWeek |-> {"mon"}, timeOfDay |-> <<TimeOfDay(15, 20, 0)>>, duration |-> 0],
   [dayOfWeek |-> {"mon", "tue"}, timeOfDay |-> <<TimeOfDay(9, 30, 0)>>,
    duration |-> 0 - 30],
   [dayOfWeek |-> {"mon"}, timeOfDay |-> <<TimeOfDay(9, 30, 0)>>, duration |-> 180]}

InvalidSlots ==
  {Slot("free", At(4, 22, 0, 0), At(4, 22, 0, 0)),
   Slot("busy", At(4, 10, 0, 0), At(4, 10, 0, 0)),
   Slot("busy-unavailable", At(4, 11, 0, 0), At(4, 10, 30, 0)),
   Slot("free", At(4, 23, 0, 0), At(4, 22, 0, 0)),
   Slot("busy", At(4, 15, 0, 0), At(4, 15, 30, 0))}

InitInvalid ==
  /\ pc = "find"
  /\ \E rules \in SeqsUpTo(InvalidRules, MaxRules) :
       schedulingParameters \in
         {[Parameters(rules) EXCEPT !.alignmentInterval = ai, !.bufferBefore = bb] :
            ai \in {15, 60}, bb \in {0, 10}}
  /\ range \in HandlerRanges
  /\ slots \in SeqsUpTo(InvalidSlots, MaxSlots)
  /\ tz \in HandlerTzOffsets
  /\ thrown = "none"
  /\ scheduleAvailability = unused /\ availability = unused
  /\ slotIntervals = unused
  /\ result = unused /\ intervals = unused
  /\ availableIntervals = unused /\ blockedIntervals = unused
  /\ interval = unused /\ options = unused

SpecInvalid == InitInvalid /\ [][Next]_vars

AllPositive(list) == \A i \in 1 .. Len(list) : list[i].start < list[i].end

InvalidInput ==
  \/ \E i \in 1 .. Len(schedulingParameters.availability) :
       schedulingParameters.availability[i].duration <= 0
  \/ \E i \in 1 .. Len(slots) : slots[i].end <= slots[i].start

\* C10: a rule with duration <= 0 or a booking with end <= start makes the
\* core fail fast, so whenever the core returns on such an input, no list
\* returned by resolveAvailability, applyExistingSlots or findAlignedSlots
\* holds an interval with end <= start.
C10_FailFast ==
  (Returned /\ InvalidInput) =>
    /\ AllPositive(scheduleAvailability)
    /\ AllPositive(availability)
    /\ AllPositive(slotIntervals)
(***************************************************************************)
(* The handler on parameters with buffers, offsets and alignment           *)
(* intervals that do and do not divide the hour.                           *)
(***************************************************************************)
BufferParameters ==
  {[availability |-> rules, duration |-> d, bufferBefore |-> bb,
    bufferAfter |-> ba, alignmentInterval |-> ai, alignmentOffset |-> ao] :
     rules \in SeqsUpTo(HandlerRules, MaxRules),
     d \in {15, 30}, bb \in {0, 10}, ba \in {0, 5},
     ai \in {15, 20, 45}, ao \in {0, 50}}

BufferSlots ==
  {Slot("busy", At(4, 15, 0, 0), At(4, 15, 30, 0)),
   Slot("busy-unavailable", At(4, 10, 40, 1), At(4, 11, 10, 0)),
   Slot("free", At(4, 16, 0, 0), At(4, 18, 0, 0))}

BufferRanges ==
  {Interval(At(3, 5, 0, 0), At(6, 4, 59, 1)),
   Interval(At(4, 15, 0, 1), At(5, 0, 0, 0))}

InitBuffers ==
  /\ pc = "find"
  /\ schedulingParameters \in BufferParameters
  /\ range \in BufferRanges
  /\ slots \in SeqsUpTo(BufferSlots, MaxSlots)
  /\ tz \in HandlerTzOffsets
  /\ thrown = "none"
  /\ scheduleAvailability = unused /\ availability = unused
  /\ slotIntervals = unused
  /\ result = unused /\ intervals = unused
  /\ availableIntervals = unused /\ blockedIntervals = unused
  /\ interval = unused /\ options = unused

SpecBuffers == InitBuffers /\ [][Next]_vars

\* slot s of the handler's answer, with its buffers put back, lies inside one
\* interval of the net availability
PaddedInsideAvailability(s) ==
  \E k \in 1 .. Len(availability) :
    /\ availability[k].start <= s.start - MinuteTicks(schedulingParameters.bufferBefore)
    /\ s.end + MinuteTicks(schedulingParameters.bufferAfter) <= availability[k].end

BufferHandling ==
  \A i \in 1 .. Len(slotIntervals) :
    /\ slotIntervals[i].end - slotIntervals[i].start
         = MinuteTicks(schedulingParameters.duration)
    /\ (getMinutes(slotIntervals[i].start, tz) - schedulingParameters.alignmentOffset)
         % schedulingParameters.alignmentInterval = 0
    /\ PaddedInsideAvailability(slotIntervals[i])

NextMinuteMark(t) ==
  CHOOSE m \in t .. (t + TicksPerMinute - 1) : m % TicksPerMinute = 0

\* C12: every slot findAlignedSlots emits starts on a whole-minute boundary
\* at or after interval.start; the first start is interval.start rounded up
\* to the next minute mark (unchanged when on one) plus a grid shift, and the
\* grid shift is always in [0, alignment).
C12_NeverBeforeAvailability ==
  pc = "done" =>
    /\ \A i \in 1 .. Len(result) :
         /\ result[i].start % TicksPerMinute = 0
         /\ result[i].start >= interval.start
    /\ toAlign(interval, options, tz) \in 0 .. (options.alignment - 1)
    /\ result # <<>> =>
         result[1].start =
           NextMinuteMark(interval.start) + MinuteTicks(toAlign(interval, options, tz))

\* an interval that starts off the minute mark, a negative offset, and a
\* first slot shifted onto the grid
C12_Witness ==
  /\ pc = "done"
  /\ interval.start % TicksPerMinute # 0
  /\ options.offsetMinutes < 0
  /\ result # <<>>
  /\ toAlign(interval, options, tz) > 0
  /\ result[1].start > NextMinuteMark(interval.start)
(***************************************************************************)
(* intersectIntervals and mergeIntervals applied to a pair of intervals.   *)
(***************************************************************************)
InitPrimitives ==
  /\ pc = "primitives"
  /\ intervals \in ValidIntervals \X ValidIntervals
  /\ result = unused
  /\ tz = 0 /\ thrown = "none"
  /\ schedulingParameters = unused /\ range = unused /\ slots = unused
  /\ scheduleAvailability = unused /\ slotIntervals = unused
  /\ availability = unused
  /\ availableIntervals = unused /\ blockedIntervals = unused
  /\ interval = unused /\ options = unused

IntersectIntervals ==
  /\ pc = "primitives"
  /\ result' = intersectIntervals(intervals[1], intervals[2])
  /\ pc' = "intersected"
  /\ UNCHANGED <<tz, thrown, schedulingParameters, range, slots,
                 scheduleAvailability, availability, slotIntervals,
                 intervals, availableIntervals, blockedIntervals,
                 interval, options>>

MergeIntervals ==
  /\ pc = "primitives"
  /\ result' = mergeIntervals(intervals[1], intervals[2])
  /\ pc' = "merged"
  /\ UNCHANGED <<tz, thrown, schedulingParameters, range, slots,
                 scheduleAvailability, availability, slotIntervals,
                 intervals, availableIntervals, blockedIntervals,
                 interval, options>>

NextPrimitives == IntersectIntervals \/ MergeIntervals

SpecPrimitives == InitPrimitives /\ [][NextPrimitives]_vars

LaterStart == Max2(intervals[1].start, intervals[2].start)
EarlierStart == Min2(intervals[1].start, intervals[2].start)
LaterEnd == Max2(intervals[1].end, intervals[2].end)
EarlierEnd == Min2(intervals[1].end, intervals[2].end)

\* C13: intersectIntervals(a, b) is defined exactly when
\* max(starts) < min(ends) and is then [max(starts), min(ends)];
\* mergeIntervals(a, b) is defined exactly when max(starts) <= min(ends) and
\* is then [min(starts), max(ends)]; intervals that only touch intersect to
\* none and merge into one.
C13_TouchingAsymmetry ==
  /\ pc = "intersected" =>
       /\ isDefined(result) <=> LaterStart < EarlierEnd
       /\ isDefined(result) => result = [start |-> LaterStart, end |-> EarlierEnd]
  /\ pc = "merged" =>
       /\ isDefined(result) <=> LaterStart <= EarlierEnd
       /\ isDefined(result) => result = [start |-> EarlierStart, end |-> LaterEnd]

\* two intervals that only touch, merged into one
C13_Witness ==
  /\ pc = "merged"
  /\ intervals[1].end = intervals[2].start
  /\ result = [start |-> intervals[1].start, end |-> intervals[2].end]

\* two intervals that only touch have no intersection
C13_WitnessIntersect ==
  /\ pc = "intersected"
  /\ intervals[1].end = intervals[2].start
  /\ result = undefined

\* the instants of range inside the occurrence of timeOfDay entry k of rule r
\* on calendar day n
OccurrenceInRange(n, r, k) ==
  {t \in Max2(Occurrence(n, r, k).start, range.start)
          .. (Min2(Occurrence(n, r, k).end, range.end) - 1) : TRUE}

CoveredByResult(t) ==
  \E i \in 1 .. Len(result) : result[i].start <= t /\ t < result[i].end

\* C14: every instant of range that lies inside an occurrence of a rule on a
\* calendar day the rule names (a day before range.start included, when the
\* occurrence crosses midnight into range) is covered by an interval that
\* resolveAvailability returns.
C14_CompleteAtRangeStart ==
  pc = "done" =>
    \A r \in 1 .. Len(schedulingParameters.availability) :
      \A k \in 1 .. Len(schedulingParameters.availability[r].timeOfDay) :
        \A n \in ((range.start \div DayTicks) - 3) .. ((range.end \div DayTicks) + 1) :
          DayName(n) \in schedulingParameters.availability[r].dayOfWeek =>
            \A t \in OccurrenceInRange(n, r, k) : CoveredByResult(t)
====
